---- MODULE Spec2Model ----
(***************************************************************************)
(* User-creation pipeline of bomberquizapi:                                *)
(*   UserCreateService.create = sanitize -> validate -> hash -> persist,   *)
(* with UserCreateDataSanitizer, UserCreateDataValidator,                  *)
(* UserUniqueEmailValidator and InMemoryUserRepository.                    *)
(*                                                                         *)
(* Encoding of JavaScript values:                                          *)
(*   - a string is a sequence of one-character strings ("" is << >>);      *)
(*   - undefined/null in a string position is Undefined, a one-element     *)
(*     sequence whose element is not a character, so it differs from       *)
(*     every string;                                                       *)
(*   - a Date is <<year, month, day>>; a missing Date is << >>;            *)
(*   - a thrown value is a record [type, name, message, statusCode,        *)
(*     origin]; origin names the place that created it and stands for its  *)
(*     identity and its stack; name is written as a one-piece string.      *)
(***************************************************************************)
EXTENDS Integers, Sequences, FiniteSets, TLC

(* ------------------------------ bounds -------------------------------- *)

\* number of create calls issued in one behaviour
MaxCalls == 2

\* number of failures the environment (mocked collaborators, logger) may
\* inject in one behaviour of Spec
MaxFaults == 1

\* Argon2Hash instances constructed
MaxInstances == 3

Calls == 1..MaxCalls

(* --------------------------- string helpers --------------------------- *)

Undefined == <<"undefined">>

UpperChars == <<"A","B","C","D","E","F","G","H","I","J","K","L","M",
                "N","O","P","Q","R","S","T","U","V","W","X","Y","Z">>

LowerChars == <<"a","b","c","d","e","f","g","h","i","j","k","l","m",
                "n","o","p","q","r","s","t","u","v","w","x","y","z">>

DigitChars == <<"0","1","2","3","4","5","6","7","8","9">>

InSeq(c, s) == \E i \in 1..Len(s) : s[i] = c

IsUpper(c) == InSeq(c, UpperChars)

IsLower(c) == InSeq(c, LowerChars)

IsDigit(c) == InSeq(c, DigitChars)

\* JavaScript \s restricted to the characters the model uses
IsSpace(c) == c \in {" ", "\t", "\n"}

\* String.prototype.toLowerCase on one character
LowerOf(c) ==
  IF IsUpper(c)
    THEN LowerChars[CHOOSE i \in 1..Len(UpperChars) : UpperChars[i] = c]
    ELSE c

toLowerCase(s) == [i \in 1..Len(s) |-> LowerOf(s[i])]

RECURSIVE trimStart(_)
trimStart(s) ==
  IF s # <<>> /\ IsSpace(Head(s)) THEN trimStart(Tail(s)) ELSE s

RECURSIVE trimEnd(_)
trimEnd(s) ==
  IF s # <<>> /\ IsSpace(s[Len(s)])
    THEN trimEnd(SubSeq(s, 1, Len(s) - 1))
    ELSE s

\* String.prototype.trim
trim(s) == trimEnd(trimStart(s))

\* s.replace(/\s+/g, " ")
RECURSIVE collapseSpaces(_)
collapseSpaces(s) ==
  IF s = <<>> THEN <<>>
  ELSE IF IsSpace(Head(s))
    THEN <<" ">> \o collapseSpaces(trimStart(s))
    ELSE <<Head(s)>> \o collapseSpaces(Tail(s))

\* index of the first ">" of s, 0 when there is none
RECURSIVE indexOfGt(_, _)
indexOfGt(s, i) ==
  IF i > Len(s) THEN 0
  ELSE IF s[i] = ">" THEN i
  ELSE indexOfGt(s, i + 1)

\* text.replace(/<[^>]*>/g, ""): the XSS sanitizer double of the
\* integration tests, which removes every <...> run
RECURSIVE stripTags(_)
stripTags(s) ==
  IF s = <<>> THEN <<>>
  ELSE IF Head(s) = "<" /\ indexOfGt(s, 2) > 0
    THEN stripTags(SubSeq(s, indexOfGt(s, 2) + 1, Len(s)))
    ELSE <<Head(s)>> \o stripTags(Tail(s))

\* JavaScript truthiness test !v
Falsy(v) == v = <<>> \/ v = Undefined

(* ----------------------- UserCreateDataSanitizer ---------------------- *)

xssSanitize(text) == IF Falsy(text) THEN <<>> ELSE stripTags(text)

\* variant: the address is trimmed but keeps its case
sanitizeEmail_KeepsCase(email) ==
  IF Falsy(email) THEN <<>> ELSE trim(email)

sanitizeEmail(email) ==
  IF Falsy(email) THEN <<>> ELSE toLowerCase(trim(email))

sanitizeName(name) ==
  IF Falsy(name) THEN <<>> ELSE xssSanitize(collapseSpaces(trim(name)))

\* trimmedPhone.replace(/[^\d+]/g, "")
sanitizePhone(phone) ==
  IF Falsy(phone) THEN <<>>
  ELSE SelectSeq(trim(phone), LAMBDA c : IsDigit(c) \/ c = "+")

\* the argument null (or undefined) passed where a UserCreateData is expected
NullData == [isNull |-> TRUE]

\* the object {} read through the five fields of UserCreateData
EmptyObject ==
  [name |-> Undefined, email |-> Undefined, phone |-> Undefined,
   birthdate |-> <<>>, password |-> Undefined]

\* { ...data, email, name, phone, password, birthdate }: every other property
\* of data is copied as it is
sanitize(d) ==
  IF d = NullData THEN EmptyObject
  ELSE [d EXCEPT !.email     = sanitizeEmail(d.email),
                 !.name      = sanitizeName(d.name),
                 !.phone     = sanitizePhone(d.phone),
                 !.password  = d.password,
                 !.birthdate = d.birthdate]

(* ------------------------------- errors ------------------------------- *)

UpperOf(c) ==
  IF IsLower(c)
    THEN UpperChars[CHOOSE i \in 1..Len(LowerChars) : LowerChars[i] = c]
    ELSE c

\* s.charAt(0).toUpperCase() + s.slice(1)
Capitalize(s) == IF s = <<>> THEN <<>> ELSE <<UpperOf(Head(s))>> \o Tail(s)

\* no error: the checked step returned normally
NoError == [none |-> TRUE]

ApplicationError(type, message, statusCode, origin) ==
  [type |-> type, name |-> <<type>>, message |-> message,
   statusCode |-> statusCode, origin |-> origin]

MissingParamError(param, origin) ==
  ApplicationError("MissingParamError",
                   <<"Parâmetro obrigatório não informado: ">> \o param,
                   400, origin)

InvalidParamError(param, reason, origin) ==
  ApplicationError("InvalidParamError",
                   IF ~Falsy(reason) /\ trim(reason) # <<>>
                     THEN <<"Parâmetro inválido: ">> \o Capitalize(param)
                            \o <<". ">> \o Capitalize(reason) \o <<".">>
                     ELSE <<"Parâmetro inválido: ">> \o Capitalize(param)
                            \o <<".">>,
                   400, origin)

DuplicateResourceError(resource, origin) ==
  ApplicationError("DuplicateResourceError",
                   Capitalize(resource) \o <<" já cadastrado no sistema">>,
                   409, origin)

\* `${value}` for a value that is a string or undefined
templateString(v) == IF v = Undefined THEN <<"u", "ndefined">> ELSE v

\* new ServerError(error): the message of error is capitalized behind the
\* fixed prefix, the stack of error (its origin) is kept
ServerError(error) ==
  ApplicationError("ServerError",
                   <<"E", "rro inesperado do servidor. ">>
                     \o Capitalize(templateString(error.message)),
                   500, error.origin)

\* Labels and reasons. Message texts are written with their first character
\* apart (the one Capitalize acts on) and the rest as one piece.
L_nome == <<"n", "ome">>

L_email == <<"e", "mail">>

L_e_mail == <<"e", "-mail">>

L_telefone == <<"t", "elefone">>

L_nascimento == <<"d", "ata de nascimento">>

L_senha == <<"s", "enha">>

R_formato == <<"f", "ormato inválido">>

(* --------------------------- field validators ------------------------- *)

Count(c, s) == Cardinality({i \in 1..Len(s) : s[i] = c})

\* validator.isEmail of the validator library, reduced to: no white space,
\* exactly one "@", a non-empty local part, and a domain with an inner "."
isEmail(email) ==
  /\ ~Falsy(email)
  /\ \A i \in 1..Len(email) : ~IsSpace(email[i])
  /\ Count("@", email) = 1
  /\ LET at == CHOOSE i \in 1..Len(email) : email[i] = "@"
     IN /\ at > 1
        /\ \E k \in (at + 2)..(Len(email) - 1) : email[k] = "."

\* ValidatorEmailValidatorAdapter.validate
userEmailValidator(email) ==
  IF ~isEmail(email)
    THEN InvalidParamError(L_e_mail, R_formato, "ValidatorEmailValidatorAdapter")
    ELSE NoError

\* parsePhoneNumber(phone, "BR").isValid() of libphonenumber-js, reduced to
\* the length of the number: 10 or 11 national digits, optionally after the
\* country code +55
isValidPhone(phone) ==
  LET digits == SelectSeq(phone, IsDigit)
  IN IF phone # <<>> /\ Head(phone) = "+"
       THEN /\ Len(digits) \in {12, 13}
            /\ SubSeq(digits, 1, 2) = <<"5", "5">>
       ELSE Len(digits) \in {10, 11}

\* LibphonenumberPhoneValidator.validate
userPhoneValidator(phone) ==
  IF ~isValidPhone(phone)
    THEN InvalidParamError(L_telefone, R_formato, "LibphonenumberPhoneValidator")
    ELSE NoError

MIN_AGE_YEARS == 18

MAX_AGE_YEARS == 70

\* new Date() at the time of validation
Today == <<2025, 6, 15>>

\* date-fns isValid
isValid(date) ==
  /\ Len(date) = 3
  /\ date[2] \in 1..12
  /\ date[3] \in 1..31

DateBefore(a, b) ==
  \/ a[1] < b[1]
  \/ a[1] = b[1] /\ a[2] < b[2]
  \/ a[1] = b[1] /\ a[2] = b[2] /\ a[3] < b[3]

\* date-fns isPast
isPast(date) == DateBefore(date, Today)

\* date-fns differenceInYears(later, earlier): whole years
differenceInYears(later, earlier) ==
  IF ~DateBefore(earlier, later) THEN 0
  ELSE (later[1] - earlier[1])
       - (IF \/ later[2] < earlier[2]
             \/ later[2] = earlier[2] /\ later[3] < earlier[3]
            THEN 1 ELSE 0)

\* variant: the maximum age itself is rejected
userBirthdateValidator_ExclusiveMax(birthdate) ==
  IF birthdate = <<>> \/ ~isValid(birthdate)
    THEN InvalidParamError(L_nascimento, <<"d", "ata inválida">>,
                           "DateFnsBirthdateValidatorAdapter")
  ELSE IF ~isPast(birthdate)
    THEN InvalidParamError(L_nascimento, <<"n", "ão pode ser no futuro">>,
                           "DateFnsBirthdateValidatorAdapter")
  ELSE IF differenceInYears(Today, birthdate) < MIN_AGE_YEARS
    THEN InvalidParamError(L_nascimento,
                           <<"u", "suário deve ter pelo menos 18 anos">>,
                           "DateFnsBirthdateValidatorAdapter")
  ELSE IF differenceInYears(Today, birthdate) >= MAX_AGE_YEARS
    THEN InvalidParamError(L_nascimento,
                           <<"i", "dade excede o limite máximo de 70 anos">>,
                           "DateFnsBirthdateValidatorAdapter")
  ELSE NoError

\* DateFnsBirthdateValidatorAdapter.validate
userBirthdateValidator(birthdate) ==
  IF birthdate = <<>> \/ ~isValid(birthdate)
    THEN InvalidParamError(L_nascimento, <<"d", "ata inválida">>,
                           "DateFnsBirthdateValidatorAdapter")
  ELSE IF ~isPast(birthdate)
    THEN InvalidParamError(L_nascimento, <<"n", "ão pode ser no futuro">>,
                           "DateFnsBirthdateValidatorAdapter")
  ELSE IF differenceInYears(Today, birthdate) < MIN_AGE_YEARS
    THEN InvalidParamError(L_nascimento,
                           <<"u", "suário deve ter pelo menos 18 anos">>,
                           "DateFnsBirthdateValidatorAdapter")
  ELSE IF differenceInYears(Today, birthdate) > MAX_AGE_YEARS
    THEN InvalidParamError(L_nascimento,
                           <<"i", "dade excede o limite máximo de 70 anos">>,
                           "DateFnsBirthdateValidatorAdapter")
  ELSE NoError

\* .is().min(8)
PasswordMin == 8

\* the symbols class of the password-validator library (ASCII part)
IsSymbol(c) ==
  c \in {"!", "@", "#", "$", "%", "^", "&", "*", "(", ")", "-", "_", "=",
         "+", "[", "]", "{", "}", "|", ";", ":", "'", ",", "<", ".", ">",
         "/", "?", "~"}

\* .is().not().oneOf([...])
PasswordDenylist ==
  { <<"P","a","s","s","w","o","r","d","1","2","3">>,
    <<"A","d","m","i","n","1","2","3","!">>,
    <<"1","2","3","4","5","6","7","8">>,
    <<"S","e","n","h","a","1","2","3","!">>,
    <<"A","b","c","1","2","3","!","@","#">> }

\* the rules of the schema, in the order the schema declares them; the
\* result is the list of the rules the password violates
validationFailures(password) ==
  LET has(P(_)) == \E i \in 1..Len(password) : P(password[i])
      rules == << <<"min",       Len(password) >= PasswordMin>>,
                  <<"uppercase", has(IsUpper)>>,
                  <<"lowercase", has(IsLower)>>,
                  <<"digits",    has(IsDigit)>>,
                  <<"symbols",   has(IsSymbol)>>,
                  <<"spaces",    ~has(IsSpace)>>,
                  <<"oneOf",     password \notin PasswordDenylist>> >>
      failed == SelectSeq(rules, LAMBDA r : ~r[2])
  IN [i \in 1..Len(failed) |-> failed[i][1]]

errorMessageMap(failureType) ==
  CASE failureType = "min"       -> <<"d", "eve ter pelo menos 8 caracteres">>
    [] failureType = "uppercase" -> <<"d", "eve conter pelo menos uma letra maiúscula">>
    [] failureType = "lowercase" -> <<"d", "eve conter pelo menos uma letra minúscula">>
    [] failureType = "digits"    -> <<"d", "eve conter pelo menos um número">>
    [] failureType = "symbols"   -> <<"d", "eve conter pelo menos um caractere especial">>
    [] failureType = "spaces"    -> <<"n", "ão deve conter espaços">>
    [] failureType = "oneOf"     -> <<"é", " muito comum ou previsível">>

\* variant: the last failure of the list is reported
userPasswordValidator_LastFailure(password) ==
  IF validationFailures(password) # <<>>
    THEN InvalidParamError(L_senha,
                           errorMessageMap(validationFailures(password)[
                             Len(validationFailures(password))]),
                           "PasswordValidatorAdapter")
    ELSE NoError

\* PasswordValidatorAdapter.validate
userPasswordValidator(password) ==
  IF validationFailures(password) # <<>>
    THEN InvalidParamError(L_senha,
                           errorMessageMap(validationFailures(password)[1]),
                           "PasswordValidatorAdapter")
    ELSE NoError

(* ----------------------- UserCreateDataValidator ----------------------- *)

\* variant: the e-mail is checked for presence before the name
requiredFields_EmailFirst ==
  << <<"email", L_email>>, <<"name", L_nome>>, <<"phone", L_telefone>>,
     <<"birthdate", L_nascimento>>, <<"password", L_senha>> >>

requiredFields ==
  << <<"name", L_nome>>, <<"email", L_email>>, <<"phone", L_telefone>>,
     <<"birthdate", L_nascimento>>, <<"password", L_senha>> >>

\* variant: the presence check is left out
validateBeforeLookup_NoPresence(d) == userEmailValidator(d.email)

\* the part of validate that runs before the repository lookup is awaited:
\* the presence check over requiredFields, then the e-mail format check
validateBeforeLookup(d) ==
  LET missing == SelectSeq(requiredFields, LAMBDA r : Falsy(d[r[1]]))
  IN IF missing # <<>>
       THEN MissingParamError(missing[1][2], "UserCreateDataValidator")
       ELSE userEmailValidator(d.email)

\* the specific validators, in the order validate invokes them
specificValidators == <<"email", "uniqueEmail", "phone", "birthdate", "password">>

\* the specific validators validate invokes before it suspends on the lookup:
\* none when a required field is missing, the e-mail format check, and the
\* uniqueness check when the format check returned
invokedBeforeLookup(d) ==
  IF \E i \in 1..Len(requiredFields) : Falsy(d[requiredFields[i][1]])
    THEN <<>>
  ELSE IF userEmailValidator(d.email) # NoError
    THEN <<"email">>
  ELSE <<"email", "uniqueEmail">>

\* what a repository lookup that found nothing resolves to
NoUser == [none |-> TRUE]

\* variant: the result of the lookup is not looked at
userUniqueEmailValidator_Unchecked(existingUser) == NoError

\* UserUniqueEmailValidator.validate once findByEmail has resolved
userUniqueEmailValidator(existingUser) ==
  IF existingUser # NoUser
    THEN DuplicateResourceError(L_e_mail, "UserUniqueEmailValidator")
    ELSE NoError

\* the first error of a list of check results, NoError when all passed
RECURSIVE FirstError(_)
FirstError(results) ==
  IF results = <<>> THEN NoError
  ELSE IF Head(results) # NoError THEN Head(results)
  ELSE FirstError(Tail(results))

\* variant: the password is checked before the phone and the birthdate
validateAfterLookup_PasswordFirst(d, existingUser) ==
  FirstError(<< userUniqueEmailValidator(existingUser),
                userPasswordValidator(d.password),
                userPhoneValidator(d.phone),
                userBirthdateValidator(d.birthdate) >>)

\* the part of validate that runs once the lookup has resolved
validateAfterLookup(d, existingUser) ==
  FirstError(<< userUniqueEmailValidator(existingUser),
                userPhoneValidator(d.phone),
                userBirthdateValidator(d.birthdate),
                userPasswordValidator(d.password) >>)

\* the specific validators validate invokes once the lookup has resolved
invokedAfterLookup(d, existingUser) ==
  IF userUniqueEmailValidator(existingUser) # NoError THEN <<>>
  ELSE IF userPhoneValidator(d.phone) # NoError THEN <<"phone">>
  ELSE IF userBirthdateValidator(d.birthdate) # NoError
    THEN <<"phone", "birthdate">>
  ELSE <<"phone", "birthdate", "password">>

(* ------------------------ InMemoryUserRepository ---------------------- *)

USER_DEFAULT_AVATAR_URL == "/src/frontend/assets/images/default-avatar.png"

USER_DEFAULT_ROLE == "cliente"

\* the properties the repository sets itself; id stands for the value of
\* crypto.randomUUID() and now for new Date()
SystemFields(id, now) ==
  [id |-> id, avatarUrl |-> USER_DEFAULT_AVATAR_URL,
   role |-> USER_DEFAULT_ROLE, createdAt |-> now, updatedAt |-> now]

\* the record InMemoryUserRepository.create pushes:
\* { ...data, id, avatarUrl, role, createdAt, updatedAt }, where the
\* properties written after the spread replace those of data
NewUser(d, id, now) == SystemFields(id, now) @@ d

\* variant: a user with the same e-mail is replaced instead of kept
create_Upsert(us, d, id, now) ==
  SelectSeq(us, LAMBDA u : u.email # d.email) \o <<NewUser(d, id, now)>>

\* variant: the new user is put in front of the others
create_Unshift(us, d, id, now) == <<NewUser(d, id, now)>> \o us

\* InMemoryUserRepository.create: this.users.push({...})
create(us, d, id, now) == Append(us, NewUser(d, id, now))

\* PrismaUserRepository.create: prismaClient.user.create({ data }) stores
\* the properties of data as they are and lets the database fill in the
\* columns data does not set
prismaCreate(us, d, id, now) == Append(us, d @@ SystemFields(id, now))

\* variant: the predicate of find tests the user's e-mail for truthiness
\* instead of comparing it
findByEmail_AnyUser(us, email) ==
  IF \E i \in 1..Len(us) : ~Falsy(us[i].email)
    THEN us[CHOOSE i \in 1..Len(us) :
              /\ ~Falsy(us[i].email)
              /\ \A j \in 1..(i - 1) : Falsy(us[j].email)]
    ELSE NoUser

\* this.users.find((user) => user.email === email) || null
findByEmail(us, email) ==
  IF \E i \in 1..Len(us) : us[i].email = email
    THEN us[CHOOSE i \in 1..Len(us) :
              /\ us[i].email = email
              /\ \A j \in 1..(i - 1) : us[j].email # email]
    ELSE NoUser

\* variant: the stored user is returned as it is
mapUser_WithPassword(u) == u

\* InMemoryUserRepository.mapUser: the user without its password
mapUser(u) ==
  [id |-> u.id, name |-> u.name, email |-> u.email, phone |-> u.phone,
   birthdate |-> u.birthdate, avatarUrl |-> u.avatarUrl, role |-> u.role,
   createdAt |-> u.createdAt, updatedAt |-> u.updatedAt]

\* InMemoryUserRepository.list: this.users.map((user) => this.mapUser(user))
list(us) == [i \in 1..Len(us) |-> mapUser(us[i])]

\* PrismaUserRepository.userMap, applied to { ...user, role: user.role }
userMap(u) ==
  [id |-> u.id, name |-> u.name, email |-> u.email, phone |-> u.phone,
   birthdate |-> u.birthdate, avatarUrl |-> u.avatarUrl, role |-> u.role,
   createdAt |-> u.createdAt, updatedAt |-> u.updatedAt]

\* PrismaUserRepository.list: the rows of findMany, each through userMap
prismaList(us) == [i \in 1..Len(us) |-> userMap(us[i])]

(* ----------------------------- HashProvider --------------------------- *)

\* the string hashProvider.hash resolves to: a digest that carries a marker
\* no plaintext contains (the test double returns `hashed_${text}`)
hash(plaintext) == <<"hashed_">> \o plaintext

(* -------------------------------- inputs ------------------------------ *)

\* " Ann  L " and "<b>Bob</b>"
Names == << <<" ","A","n","n"," "," ","L"," ">>,
            <<"<","b",">","B","o","b","<","/","b",">">> >>

\* "a@b.co", " A@B.co " (the same address in another case, with white
\* space around it), "z@b.co" and the malformed "ab"
Emails == << <<"a","@","b",".","c","o">>,
             <<" ","A","@","B",".","c","o"," ">>,
             <<"z","@","b",".","c","o">>,
             <<"a","b">> >>

\* "(11) 98765-4321", "+55 11 3456-7890" and the too short "12"
Phones == << <<"(","1","1",")"," ","9","8","7","6","5","-","4","3","2","1">>,
             <<"+","5","5"," ","1","1"," ","3","4","5","6","-","7","8","9","0">>,
             <<"1","2">> >>

\* an adult
Birthdates == << <<1990, 1, 1>> >>

\* "Passw0rd!" and "S3cret#Key"
Passwords == << <<"P","a","s","s","w","0","r","d","!">>,
                <<"S","3","c","r","e","t","#","K","e","y">> >>

UserCreateData(n, e, ph, b, pw) ==
  [name |-> n, email |-> e, phone |-> ph, birthdate |-> b, password |-> pw]

\* inputs that pass every check on an empty repository: two with the same
\* address up to case and white space, one with another address
ValidInputs ==
  { UserCreateData(Names[1], Emails[1], Phones[1], Birthdates[1], Passwords[1]),
    UserCreateData(Names[2], Emails[2], Phones[2], Birthdates[1], Passwords[2]),
    UserCreateData(Names[2], Emails[3], Phones[1], Birthdates[1], Passwords[2]) }

\* an input the validator rejects (no name), and the null argument
InvalidInputs ==
  { UserCreateData(<<>>,     Emails[1], Phones[1], Birthdates[1], Passwords[1]),
    NullData }

Inputs == ValidInputs \cup InvalidInputs

(* ------------------- values the collaborators may throw --------------- *)

\* a value without name, message or stack (a string, null)
PlainValue(type, origin) ==
  [type |-> type, name |-> Undefined, message |-> Undefined,
   statusCode |-> 0, origin |-> origin]

\* new Error("falha") created at origin; statusCode 0: it has none
GenericError(origin) ==
  [type |-> "Error", name |-> <<"Error">>, message |-> <<"f", "alha">>,
   statusCode |-> 0, origin |-> origin]

\* the TypeError of reading a property of null or undefined
TypeError(origin) ==
  [type |-> "TypeError", name |-> <<"TypeError">>,
   message |-> <<"C", "annot read properties of null">>,
   statusCode |-> 0, origin |-> origin]

Nullish(e) == e.type \in {"null", "undefined"}

\* error instanceof Error
InstanceOfError(e) == e.type \notin {"string", "null", "undefined", "object"}

\* the calls to the logger at which a failure may be injected
LoggerPoints == {"debug", "trace", "info", "error"}

\* what a failing collaborator throws or rejects with: an Error, a string, or
\* null (null has no identity of its own); a failing logger throws an Error
ThrownValues(origin) ==
  IF origin \in LoggerPoints
    THEN { GenericError(origin) }
    ELSE { GenericError(origin), PlainValue("string", origin),
           PlainValue("null", "") }

NoFault == [point |-> "none", value |-> NoError]

FaultAt(f, point) == IF f.point = point THEN f.value ELSE NoError

Cost(f) == IF f = NoFault THEN 0 ELSE 1

(* -------------------------------- state ------------------------------- *)

VARIABLES
  users,        \* InMemoryUserRepository.users
  nextId,       \* source of fresh ids and timestamps
  pc,           \* where each create call is suspended
  data,         \* the argument of each call
  sanitized,    \* sanitizedData of each call
  found,        \* what the pending findByEmail resolves to
  pending,      \* the rejection the awaited promise carries, or NoError
  hashed,       \* hashedPassword of each call
  outcome,      \* how the promise returned by create settled
  invoked,      \* the collaborators each call invoked, in order
  completed,    \* the collaborators that returned normally, in order
  created,      \* the records each call passed to userRepository.create
  usersBefore,  \* users when the call started
  log,          \* every call made to the logger
  faultsLeft,   \* failures the environment may still inject
  mode,         \* "sequential": calls do not overlap; "concurrent": they may
  validators,   \* the specific validators validate invoked in each call
  repository,   \* the UserRepository in use: "memory" or "prisma"
  listService,  \* the UserListService in use: the class of "part_034" or
                \* the class of "user-list.ts"
  listed,       \* what the pending userRepository.list resolves to
  body,         \* the body of the HTTP request each call serves, if any
  response,     \* the HTTP response the controller returned
  instances,    \* the options of every Argon2Hash instance constructed
  library,      \* the last call that reached the argon2 library
  result        \* how the last call of a provider or an adapter settled

vars == <<users, nextId, pc, data, sanitized, found, pending, hashed,
          outcome, invoked, completed, created, usersBefore, log,
          faultsLeft, mode, validators, repository, listService, listed, body, response,
          instances, library, result>>

\* the part of the state that belongs to the controller
httpVars == <<body, response>>

\* the part of the state that belongs to the providers and adapters when they
\* are called on their own
providerVars == <<instances, library, result>>

NoValue == [absent |-> TRUE]

\* the call was not made through the controller
NoRequest == [request |-> "none"]

REDACTED == <<"[REDACTED]">>

Pending == [status |-> "pending", value |-> NoError]

Resolved == [status |-> "resolved", value |-> NoError]

Rejected(e) == [status |-> "rejected", value |-> e]

\* no call has been made yet
InitCalls ==
  /\ pc = [p \in Calls |-> "idle"]
  /\ data = [p \in Calls |-> NullData]
  /\ sanitized = [p \in Calls |-> EmptyObject]
  /\ found = [p \in Calls |-> NoUser]
  /\ pending = [p \in Calls |-> NoError]
  /\ hashed = [p \in Calls |-> <<>>]
  /\ outcome = [p \in Calls |-> Pending]
  /\ invoked = [p \in Calls |-> <<>>]
  /\ completed = [p \in Calls |-> <<>>]
  /\ created = [p \in Calls |-> <<>>]
  /\ usersBefore = [p \in Calls |-> <<>>]
  /\ log = <<>>
  /\ validators = [p \in Calls |-> <<>>]
  /\ listed = [p \in Calls |-> <<>>]
  /\ body = [p \in Calls |-> NoRequest]
  /\ response = [p \in Calls |-> NoValue]
  /\ instances = <<>>
  /\ library = NoValue
  /\ result = NoValue

\* a new, empty repository
InitCommon ==
  /\ users = <<>>
  /\ nextId = 1
  /\ InitCalls

\* calls one after the other, collaborators and logger may fail
Init ==
  /\ InitCommon
  /\ faultsLeft = MaxFaults
  /\ mode = "sequential"
  /\ repository = "memory"
  /\ listService = "part_034"

\* overlapping calls, no injected failure
InitConc ==
  /\ InitCommon
  /\ faultsLeft = 0
  /\ mode = "concurrent"
  /\ repository = "memory"
  /\ listService = "part_034"

(* --------------------------- UserCreateService ------------------------ *)

\* the failures that may be injected at the given points of one step
FaultChoices(points, budget) ==
  {NoFault} \cup
  (IF budget > 0
     THEN UNION { {[point |-> pt, value |-> v] : v \in ThrownValues(pt)}
                  : pt \in points }
     ELSE {})

\* logContext.metadata.userEmail: data?.email
userEmail(d) == IF d = NullData THEN Undefined ELSE d.email

logContext(d) ==
  [userEmail |-> userEmail(d), sanitizedData |-> NoValue, error |-> NoValue]

Entry(p, level, message, payload, threw) ==
  [call |-> p, level |-> level, message |-> message, payload |-> payload,
   threw |-> threw]

\* variant: the sanitized data is logged as it is
traceEntry_Unredacted(p, d, san, threw) ==
  Entry(p, "trace", "Dados sanitizados com sucesso",
        [logContext(d) EXCEPT !.sanitizedData = san], threw)

\* the trace entry after sanitization
traceEntry(p, d, san, threw) ==
  Entry(p, "trace", "Dados sanitizados com sucesso",
        [logContext(d) EXCEPT
           !.sanitizedData = [san EXCEPT !.password = REDACTED]],
        threw)

\* the payload the catch block builds from the caught value
errorEntry(p, d, e, threw) ==
  Entry(p, "error", "Erro ao criar usuário",
        [logContext(d) EXCEPT
           !.error = [name |-> e.name, message |-> e.message,
                      stack |-> IF e.type = "string"
                                  THEN Undefined ELSE <<e.origin>>]],
        threw)

\* variant: the promise is not awaited, its rejection goes unnoticed
awaitValidate_NotAwaited(e) == NoError

\* await userCreateDataValidator.validate(sanitizedData): the rejection
\* of the awaited promise is thrown inside create
awaitValidate(e) == e

\* variant: the rejection of hash goes unnoticed
awaitHash_NotAwaited(e) == NoError

\* const hashedPassword = await hashProvider.hash(sanitizedData.password)
awaitHash(e) == e

\* await userRepository.create({...})
awaitCreate(e) == e

\* variant: the password is not replaced by its hash
repositoryRecord_PlainPassword(san, hashedPassword) == san

\* { ...sanitizedData, password: hashedPassword }
repositoryRecord(san, hashedPassword) == [san EXCEPT !.password = hashedPassword]

\* how create settles: e = NoError is the normal end of the try block,
\* anything else is caught by the catch block, which logs and rethrows.
\* Building the payload reads error.name, which itself throws for null and
\* undefined; fe is what loggerProvider.error throws, if it does.
Settle(p, d, e, fe, entries) ==
  /\ pc' = [pc EXCEPT ![p] = "done"]
  /\ fe # NoFault => e # NoError /\ ~Nullish(e)
  /\ IF e = NoError
       THEN /\ outcome' = [outcome EXCEPT ![p] = Resolved]
            /\ log' = log \o entries
       ELSE IF Nullish(e)
         THEN /\ outcome' = [outcome EXCEPT
                               ![p] = Rejected(TypeError("UserCreateService.create"))]
              /\ log' = log \o entries
         ELSE /\ outcome' = [outcome EXCEPT
                               ![p] = Rejected(IF fe # NoFault THEN fe.value ELSE e)]
              /\ log' = log \o entries \o <<errorEntry(p, d, e, fe # NoFault)>>

\* create is called: everything up to the first suspension runs at once
\* (debug log, sanitize, trace log, then validate up to its await of
\* findByEmail, whose lookup InMemoryUserRepository does when it is called)
serviceCreate(p, d) ==
  /\ pc[p] = "idle"
  /\ \A q \in Calls : q < p => pc[q] # "idle"
  /\ mode # "concurrent" => \A q \in Calls : pc[q] \in {"idle", "done"}
  /\ \E f \in FaultChoices({"debug", "sanitize", "trace", "validate",
                            "findByEmail"}, faultsLeft) :
     \E fe \in FaultChoices({"error"}, faultsLeft - Cost(f)) :
       LET san      == sanitize(d)
           eDebug   == FaultAt(f, "debug")
           eSan     == FaultAt(f, "sanitize")
           eTrace   == FaultAt(f, "trace")
           syncErr  == FirstError(<<eDebug, eSan, eTrace>>)
           entries  == <<Entry(p, "debug", "Iniciando processo de criação de usuário",
                               logContext(d), eDebug # NoError)>>
                       \o (IF eDebug = NoError /\ eSan = NoError
                             THEN <<traceEntry(p, d, san, eTrace # NoError)>>
                             ELSE <<>>)
           vSync    == IF FaultAt(f, "validate") # NoError
                         THEN FaultAt(f, "validate")
                         ELSE validateBeforeLookup(san)
       IN /\ data' = [data EXCEPT ![p] = d]
          /\ usersBefore' = [usersBefore EXCEPT ![p] = users]
          /\ faultsLeft' = faultsLeft - Cost(f) - Cost(fe)
          /\ f.point = "findByEmail" => validateBeforeLookup(san) = NoError
          /\ sanitized' = [sanitized EXCEPT
                             ![p] = IF eDebug = NoError /\ eSan = NoError
                                      THEN san ELSE EmptyObject]
          /\ completed' = [completed EXCEPT
                             ![p] = IF eDebug = NoError /\ eSan = NoError
                                      THEN <<"sanitize">> ELSE <<>>]
          /\ IF syncErr # NoError
               THEN /\ Settle(p, d, syncErr, fe, entries)
                    /\ invoked' = [invoked EXCEPT
                                     ![p] = IF eDebug = NoError
                                              THEN <<"sanitize">> ELSE <<>>]
                    /\ UNCHANGED <<found, pending, validators>>
               ELSE /\ fe = NoFault
                    /\ log' = log \o entries
                    /\ invoked' = [invoked EXCEPT ![p] = <<"sanitize", "validate">>]
                    /\ validators' = [validators EXCEPT
                                         ![p] = IF f.point = "validate" THEN <<>>
                                                ELSE invokedBeforeLookup(san)]
                    /\ UNCHANGED outcome
                    /\ IF vSync # NoError
                         THEN /\ pc' = [pc EXCEPT ![p] = "validated"]
                              /\ pending' = [pending EXCEPT ![p] = vSync]
                              /\ UNCHANGED found
                         ELSE /\ pc' = [pc EXCEPT ![p] = "lookup"]
                              /\ pending' = [pending EXCEPT
                                               ![p] = FaultAt(f, "findByEmail")]
                              /\ found' = [found EXCEPT
                                             ![p] = IF f.point = "findByEmail"
                                                      THEN NoUser
                                                      ELSE findByEmail(users, san.email)]
  /\ UNCHANGED <<users, nextId, hashed, created, mode, repository, listService, listed,
                 providerVars>>

\* a caller invokes userCreateService.create directly
Call(p) ==
  /\ \E d \in Inputs : serviceCreate(p, d)
  /\ UNCHANGED httpVars

\* findByEmail has settled: validate goes on with the uniqueness verdict and
\* the phone, birthdate and password checks, then settles itself
ResumeValidate(p) ==
  /\ pc[p] = "lookup"
  /\ pc' = [pc EXCEPT ![p] = "validated"]
  /\ pending' = [pending EXCEPT
                   ![p] = IF pending[p] # NoError
                            THEN pending[p]
                            ELSE validateAfterLookup(sanitized[p], found[p])]
  /\ validators' = [validators EXCEPT
                       ![p] = IF pending[p] # NoError THEN @
                              ELSE @ \o invokedAfterLookup(sanitized[p], found[p])]
  /\ UNCHANGED <<users, nextId, data, sanitized, found, hashed, outcome,
                 invoked, completed, created, usersBefore, log, faultsLeft,
                 mode, repository, listService, listed, httpVars, providerVars>>

\* validate has settled: create goes on to the debug log and to
\* hashProvider.hash
AfterValidate(p) ==
  /\ pc[p] = "validated"
  /\ \E f \in FaultChoices({"debug", "hash"}, faultsLeft) :
     \E fe \in FaultChoices({"error"}, faultsLeft - Cost(f)) :
       LET eDebug  == FaultAt(f, "debug")
           entries == <<Entry(p, "debug", "Dados validados com sucesso",
                              logContext(data[p]), eDebug # NoError)>>
       IN /\ faultsLeft' = faultsLeft - Cost(f) - Cost(fe)
          /\ completed' = [completed EXCEPT
                             ![p] = IF pending[p] = NoError
                                      THEN Append(@, "validate") ELSE @]
          /\ IF awaitValidate(pending[p]) # NoError
               THEN /\ f = NoFault
                    /\ Settle(p, data[p], pending[p], fe, <<>>)
                    /\ UNCHANGED <<invoked, hashed, pending>>
               ELSE /\ IF eDebug # NoError
                         THEN /\ Settle(p, data[p], eDebug, fe, entries)
                              /\ UNCHANGED <<invoked, hashed, pending>>
                         ELSE /\ fe = NoFault
                              /\ log' = log \o entries
                              /\ pc' = [pc EXCEPT ![p] = "hashing"]
                              /\ invoked' = [invoked EXCEPT ![p] = Append(@, "hash")]
                              /\ pending' = [pending EXCEPT ![p] = FaultAt(f, "hash")]
                              /\ hashed' = [hashed EXCEPT
                                              ![p] = IF f.point = "hash" THEN <<>>
                                                     ELSE hash(sanitized[p].password)]
                              /\ UNCHANGED outcome
  /\ UNCHANGED <<users, nextId, data, sanitized, found, created, usersBefore,
                 mode, validators, repository, listService, listed, httpVars, providerVars>>

\* hash has settled: create goes on to the debug log and to
\* userRepository.create, which pushes the record when it is called
AfterHash(p) ==
  /\ pc[p] = "hashing"
  /\ \E f \in FaultChoices({"debug", "create"}, faultsLeft) :
     \E fe \in FaultChoices({"error"}, faultsLeft - Cost(f)) :
       LET eDebug  == FaultAt(f, "debug")
           entries == <<Entry(p, "debug", "Senha criptografada com sucesso",
                              logContext(data[p]), eDebug # NoError)>>
           record  == repositoryRecord(sanitized[p], hashed[p])
       IN /\ faultsLeft' = faultsLeft - Cost(f) - Cost(fe)
          /\ completed' = [completed EXCEPT
                             ![p] = IF pending[p] = NoError
                                      THEN Append(@, "hash") ELSE @]
          /\ IF awaitHash(pending[p]) # NoError
               THEN /\ f = NoFault
                    /\ Settle(p, data[p], pending[p], fe, <<>>)
                    /\ UNCHANGED <<invoked, created, pending, users, nextId>>
               ELSE /\ IF eDebug # NoError
                         THEN /\ Settle(p, data[p], eDebug, fe, entries)
                              /\ UNCHANGED <<invoked, created, pending, users,
                                             nextId>>
                         ELSE /\ fe = NoFault
                              /\ log' = log \o entries
                              /\ pc' = [pc EXCEPT ![p] = "persisting"]
                              /\ invoked' = [invoked EXCEPT ![p] = Append(@, "create")]
                              /\ created' = [created EXCEPT ![p] = Append(@, record)]
                              /\ pending' = [pending EXCEPT ![p] = FaultAt(f, "create")]
                              /\ IF f.point = "create"
                                   THEN UNCHANGED <<users, nextId>>
                                   ELSE /\ users' = IF repository = "prisma"
                                                       THEN prismaCreate(users, record,
                                                                         nextId, nextId)
                                                       ELSE create(users, record,
                                                                   nextId, nextId)
                                        /\ nextId' = nextId + 1
                              /\ UNCHANGED outcome
  /\ UNCHANGED <<data, sanitized, found, hashed, usersBefore, mode, validators,
                 repository, listService, listed, httpVars, providerVars>>

\* userRepository.create has settled: the info log, then create resolves
AfterCreate(p) ==
  /\ pc[p] = "persisting"
  /\ \E f \in FaultChoices({"info"}, faultsLeft) :
     \E fe \in FaultChoices({"error"}, faultsLeft - Cost(f)) :
       LET eInfo   == FaultAt(f, "info")
           entries == <<Entry(p, "info", "Usuário criado com sucesso",
                              [logContext(data[p]) EXCEPT
                                 !.userEmail = sanitized[p].email],
                              eInfo # NoError)>>
       IN /\ faultsLeft' = faultsLeft - Cost(f) - Cost(fe)
          /\ completed' = [completed EXCEPT
                             ![p] = IF pending[p] = NoError
                                      THEN Append(@, "create") ELSE @]
          /\ IF awaitCreate(pending[p]) # NoError
               THEN /\ f = NoFault
                    /\ Settle(p, data[p], pending[p], fe, <<>>)
               ELSE Settle(p, data[p], eInfo, fe, entries)
  /\ UNCHANGED <<users, nextId, data, sanitized, found, pending, hashed,
                 invoked, created, usersBefore, mode, validators, repository, listService,
                 listed, httpVars, providerVars>>

Next ==
  \E p \in Calls :
    \/ Call(p)
    \/ ResumeValidate(p)
    \/ AfterValidate(p)
    \/ AfterHash(p)
    \/ AfterCreate(p)

Spec == Init /\ [][Next]_vars

SpecConc == InitConc /\ [][Next]_vars

(* ------------------- create with inputs of every kind ----------------- *)

\* new Date(NaN), the Invalid Date: an object, so not falsy, that isValid
\* rejects
InvalidDate == <<0, 0, 0>>

\* the inputs of the validator tests: for each field a missing, an empty and
\* an invalid value, alone and combined, around two valid inputs
ValidationInputs ==
  LET N  == Names[1]
      E  == Emails[1]
      P  == Phones[1]
      B  == Birthdates[1]
      W  == Passwords[1]
      badE == Emails[4]
      badP == <<"1", "2">>
      weak == <<"a", "b", "c">>
  IN { \* valid, with different addresses
       UserCreateData(N, E, P, B, W),
       UserCreateData(Names[2], Emails[3], Phones[2], B, Passwords[2]),
       \* a tag between two spaces in the name; a "+" inside the phone
       UserCreateData(<<"A", " ", "<", "b", ">", " ", "c">>, Emails[3], P, B, W),
       UserCreateData(N, E, <<"1", "+", "1">>, B, W),
       \* the address of the first input in another case, invalid phone
       UserCreateData(N, Emails[2], badP, B, W),
       \* one field missing or empty
       UserCreateData(<<>>, E, P, B, W),
       UserCreateData(<<" ">>, E, P, B, W),
       UserCreateData(N, <<>>, P, B, W),
       UserCreateData(N, Undefined, P, B, W),
       UserCreateData(N, E, <<>>, B, W),
       UserCreateData(N, E, P, <<>>, W),
       UserCreateData(N, E, P, B, Undefined),
       UserCreateData(N, E, P, B, <<>>),
       \* two fields missing
       UserCreateData(N, <<>>, P, B, Undefined),
       UserCreateData(<<>>, E, <<>>, B, W),
       UserCreateData(N, E, P, <<>>, <<>>),
       \* every field present, one or two invalid
       UserCreateData(N, badE, P, B, W),
       UserCreateData(N, badE, badP, B, W),
       UserCreateData(N, E, badP, B, weak),
       UserCreateData(N, E, P, <<2010, 1, 1>>, W),
       UserCreateData(N, E, P, <<2030, 1, 1>>, W),
       UserCreateData(N, E, P, <<1950, 1, 1>>, W),
       UserCreateData(N, E, P, InvalidDate, W),
       UserCreateData(N, E, P, <<2010, 1, 1>>, weak),
       UserCreateData(N, E, P, B, weak),
       UserCreateData(N, E, P, B, <<"S","e","n","h","a","1","2","3","!">>),
       NullData }

\* a caller invokes userCreateService.create with one of ValidationInputs
CallValidation(p) ==
  /\ \E d \in ValidationInputs : serviceCreate(p, d)
  /\ UNCHANGED httpVars

\* calls one after the other with inputs of every kind; no collaborator fails
InitValidation ==
  /\ InitCommon
  /\ faultsLeft = 0
  /\ mode = "validation"
  /\ repository = "memory"
  /\ listService = "part_034"

NextValidation ==
  \E p \in Calls :
    \/ CallValidation(p)
    \/ ResumeValidate(p)
    \/ AfterValidate(p)
    \/ AfterHash(p)
    \/ AfterCreate(p)

SpecValidation == InitValidation /\ [][NextValidation]_vars

(* -------------------------- UserCreateController ---------------------- *)

\* the request has no body
NoBody == [nobody |-> TRUE]

\* the request served by UserListController: its body is not read
ListRequest == [request |-> "GET /api/users"]

\* new Date(value) for the birthdate of the body: the date the string
\* denotes, the Invalid Date for undefined and for a string that is no date
newDate(value) ==
  IF value = <<>> \/ ~isValid(value) THEN InvalidDate ELSE value

\* { ...request.body, birthdate: new Date(request.body.birthdate) }
requestData(b) == [b EXCEPT !.birthdate = newDate(b.birthdate)]

\* the body of every response carries metadata.timestamp, the current time
HttpResponse(statusCode, success, errorMessage) ==
  [statusCode |-> statusCode, success |-> success,
   errorMessage |-> errorMessage, metadata |-> [timestamp |-> Today]]

\* created()
createdResponse == HttpResponse(201, TRUE, NoValue)

\* error instanceof ApplicationError
InstanceOfApplicationError(e) ==
  e.type \in {"MissingParamError", "InvalidParamError",
              "DuplicateResourceError", "ServerError"}

\* serverError(error)
serverError(e) == HttpResponse(500, FALSE, e.message)

\* handleError(error); reading the message of null or undefined throws, and
\* handle then rejects instead of returning a response
handleError(e) ==
  IF InstanceOfApplicationError(e)
    THEN HttpResponse(e.statusCode, FALSE, e.message)
  ELSE IF Nullish(e) THEN Rejected(TypeError("handleError"))
  ELSE serverError(e)

\* request bodies: two valid ones, one for each field left out, one with an
\* invalid e-mail, and a valid one that also carries id, role and avatarUrl
HttpBodies ==
  LET ok == UserCreateData(Names[1], Emails[1], Phones[1], Birthdates[1],
                           Passwords[1])
  IN { ok,
       UserCreateData(Names[2], Emails[3], Phones[2], Birthdates[1], Passwords[2]),
       [ok EXCEPT !.name = Undefined],
       [ok EXCEPT !.email = Undefined],
       [ok EXCEPT !.phone = Undefined],
       [ok EXCEPT !.birthdate = <<>>],
       [ok EXCEPT !.password = Undefined],
       [ok EXCEPT !.email = Emails[4]],
       [id |-> 0, role |-> "administrador", avatarUrl |-> "/x.png"] @@ ok }

\* handle is called: without a body it answers at once, otherwise it calls
\* userCreateService.create, which runs up to its first suspension
Handle(p) ==
  /\ pc[p] = "idle"
  /\ \E b \in HttpBodies \cup {NoBody} :
       /\ body' = [body EXCEPT ![p] = b]
       /\ IF b = NoBody
            THEN /\ \A q \in Calls : q < p => pc[q] # "idle"
                 /\ \A q \in Calls : pc[q] \in {"idle", "done"}
                 /\ pc' = [pc EXCEPT ![p] = "done"]
                 /\ response' =
                      [response EXCEPT
                         ![p] = handleError(MissingParamError(
                                  <<"c", "orpo da requisição não informado">>,
                                  "UserCreateController"))]
                 /\ UNCHANGED <<users, nextId, data, sanitized, found, pending,
                                hashed, outcome, invoked, completed, created,
                                usersBefore, log, faultsLeft, mode, validators,
                                repository, listService, listed, providerVars>>
            ELSE /\ serviceCreate(p, requestData(b))
                 /\ UNCHANGED response

\* create has settled: handle returns created() or handleError(error)
Respond(p) ==
  /\ pc[p] = "done"
  /\ body[p] \notin {NoRequest, NoBody, ListRequest}
  /\ response[p] = NoValue
  /\ response' = [response EXCEPT
                    ![p] = IF outcome[p].status = "resolved"
                             THEN createdResponse
                             ELSE handleError(outcome[p].value)]
  /\ UNCHANGED <<users, nextId, pc, data, sanitized, found, pending, hashed,
                 outcome, invoked, completed, created, usersBefore, log,
                 faultsLeft, mode, validators, repository, listService, listed, body,
                 providerVars>>

\* requests served one after the other by the controller, on either
\* repository; no collaborator fails
InitHttp ==
  /\ InitCommon
  /\ faultsLeft = 0
  /\ mode = "http"
  /\ repository \in {"memory", "prisma"}
  /\ listService = "part_034"

NextHttp ==
  \E p \in Calls :
    \/ Handle(p)
    \/ ResumeValidate(p)
    \/ AfterValidate(p)
    \/ AfterHash(p)
    \/ AfterCreate(p)
    \/ Respond(p)

SpecHttp == InitHttp /\ [][NextHttp]_vars

(* ----------------- the adapters, called on their own ------------------ *)

\* birthdates around the limits: the days before, on and after the 18th
\* and the 71st birthday, recent and future dates, a missing date and the
\* Invalid Date
BirthdateInputs ==
  { <<y, mo, d>> : y \in {1954, 1955, 2006, 2007, 2008, 2024, 2025, 2026},
                   mo \in {1, 6, 12}, d \in {1, 14, 15, 16} }
  \cup { <<>>, InvalidDate }

\* one character of each class a rule of the schema looks for
ClassChars == <<"Q", "q", "7", "#", " ">>

\* the password made of the characters of the classes in S, in the order of
\* ClassChars, repeated up to n characters
PasswordOf(S, n) ==
  LET base == SelectSeq(ClassChars,
                        LAMBDA c : \E i \in S : ClassChars[i] = c)
  IN [i \in 1..n |-> base[((i - 1) % Len(base)) + 1]]

\* passwords with every combination of character classes, too short and
\* long enough, the empty password and the passwords of the denylist
PasswordInputs ==
  { PasswordOf(S, n) : S \in (SUBSET (1..5)) \ {{}}, n \in {5, 10} }
  \cup { <<>> } \cup PasswordDenylist

Settled(op, arg, e) == [op |-> op, arg |-> arg, value |-> e]

\* userBirthdateValidator.validate(birthdate)
ValidateBirthdate ==
  /\ \E b \in BirthdateInputs :
       result' = Settled("DateFnsBirthdateValidatorAdapter.validate", b,
                         userBirthdateValidator(b))
  /\ UNCHANGED <<users, nextId, pc, data, sanitized, found, pending, hashed,
                 outcome, invoked, completed, created, usersBefore, log,
                 faultsLeft, mode, validators, repository, listService, listed, httpVars,
                 instances, library>>

\* userPasswordValidator.validate(password)
ValidatePassword ==
  /\ \E w \in PasswordInputs :
       result' = Settled("PasswordValidatorAdapter.validate", w,
                         userPasswordValidator(w))
  /\ UNCHANGED <<users, nextId, pc, data, sanitized, found, pending, hashed,
                 outcome, invoked, completed, created, usersBefore, log,
                 faultsLeft, mode, validators, repository, listService, listed, httpVars,
                 instances, library>>

InitAdapters ==
  /\ InitCommon
  /\ faultsLeft = 0
  /\ mode = "adapters"
  /\ repository = "memory"
  /\ listService = "part_034"

NextAdapters == ValidateBirthdate \/ ValidatePassword

SpecAdapters == InitAdapters /\ [][NextAdapters]_vars

(* ------------------------------ Argon2Hash ---------------------------- *)

OptionNames == {"iterations", "memoryCost", "parallelism", "hashLength"}

\* private readonly defaultOptions
defaultOptions ==
  [iterations |-> 3, memoryCost |-> 65536, parallelism |-> 4, hashLength |-> 32]

\* {} : an options object that sets nothing
NoOptions == [k \in {} |-> 0]

\* the options objects callers pass: none, one option, two options
OptionChoices ==
  { NoOptions,
    [iterations |-> 5],
    [memoryCost |-> 131072, parallelism |-> 8],
    [iterations |-> 2, hashLength |-> 64] }

\* { ...a, ...b }: the properties of b replace those of a
spread(a, b) == b @@ a

\* constructor(options = {}): this.options = { ...options }. chain is not
\* part of the object: it records the options objects the instance was
\* built from, the constructor's first
Argon2Hash(options, chain) == [options |-> spread(NoOptions, options), chain |-> chain]

\* variant: withOptions also assigns the merged options to the receiver
withOptions_Mutating(insts, i, o) ==
  Append([insts EXCEPT ![i].options = spread(insts[i].options, o)],
         Argon2Hash(spread(insts[i].options, o), Append(insts[i].chain, o)))

\* withOptions(options): new Argon2Hash({ ...this.options, ...options })
withOptions(insts, i, o) ==
  Append(insts,
         Argon2Hash(spread(insts[i].options, o), Append(insts[i].chain, o)))

\* variant: the options of the instance replace those of the call
mergedOptions_InstanceLast(instance, o) ==
  spread(spread(defaultOptions, o), instance.options)

\* { ...this.defaultOptions, ...this.options, ...options }
mergedOptions(instance, o) ==
  spread(spread(defaultOptions, instance.options), o)

\* the options object handed to argon2.hash
argonOptions(merged) ==
  [type |-> "argon2id", memoryCost |-> merged.memoryCost,
   timeCost |-> merged.iterations, parallelism |-> merged.parallelism,
   hashLength |-> merged.hashLength]

\* what the argon2 library may do: resolve, or throw an Error whose message
\* says the hash is invalid, another Error, a string, or null
LibraryOutcomes ==
  { NoError,
    [type |-> "Error", name |-> <<"Error">>,
     message |-> <<"p", "chstr is ", "invalid">>, statusCode |-> 0,
     origin |-> "argon2"],
    GenericError("argon2"),
    PlainValue("string", "argon2"),
    PlainValue("null", "") }

\* error.message.includes("invalid")
includes(message, piece) == \E i \in 1..Len(message) : message[i] = piece

\* plaintexts and hashes: present, empty, undefined
TextChoices == { <<"s", "3", "c", "r", "e", "t">>, <<>>, Undefined }

HashChoices == { <<"$argon2id$", "abc">>, <<>>, Undefined }

\* the catch block of hash
hashCatch(e) ==
  IF InstanceOfError(e)
    THEN ServerError(e)
    ELSE ServerError([type |-> "Error", name |-> <<"Error">>,
                      message |-> <<"E", "rro desconhecido durante o processo de hash">>,
                      statusCode |-> 0, origin |-> "Argon2Hash.hash"])

\* variant: the catch block rethrows what it caught
compareCatch_Rethrow(e) == e

\* the catch block of compare
compareCatch(e) ==
  IF InstanceOfError(e) /\ includes(e.message, "invalid")
    THEN InvalidParamError(<<"h", "ash">>, <<"f", "ormato inválido">>,
                           "Argon2Hash.compare")
  ELSE IF InstanceOfError(e)
    THEN ServerError(e)
  ELSE ServerError([type |-> "Error", name |-> <<"Error">>,
                    message |-> <<"E", "rro desconhecido durante a verificação do hash">>,
                    statusCode |-> 0, origin |-> "Argon2Hash.compare"])

\* what a call of the provider leaves the rest of the state as
ProviderFrame ==
  UNCHANGED <<users, nextId, pc, data, sanitized, found, pending, hashed,
              outcome, invoked, completed, created, usersBefore, log,
              faultsLeft, mode, validators, repository, listService, listed, httpVars>>

\* new Argon2Hash(options)
Construct ==
  /\ Len(instances) < MaxInstances
  /\ \E o \in OptionChoices :
       instances' = Append(instances, Argon2Hash(o, <<o>>))
  /\ UNCHANGED <<library, result>>
  /\ ProviderFrame

\* instance.withOptions(options)
WithOptions ==
  /\ Len(instances) < MaxInstances
  /\ \E i \in 1..Len(instances), o \in OptionChoices :
       instances' = withOptions(instances, i, o)
  /\ UNCHANGED <<library, result>>
  /\ ProviderFrame

\* instance.hash(plaintext, options), up to its settling. hash and compare
\* assign no field of the instance, so one call is followed per behaviour
Hash ==
  /\ result = NoValue
  /\ \E i \in 1..Len(instances), text \in TextChoices,
        o \in OptionChoices, e \in LibraryOutcomes :
       LET call == [fn |-> "hash", instance |-> i, text |-> text, given |-> o]
       IN IF Falsy(text)
            THEN /\ e = NoError
                 /\ library' = NoValue
                 /\ result' = Settled("Argon2Hash.hash", call,
                       Rejected(InvalidParamError(<<"t", "exto">>,
                                                  <<"n", "ão pode ser vazio">>,
                                                  "Argon2Hash.hash")))
            ELSE /\ library' = [fn |-> "argon2.hash", text |-> text,
                                options |-> argonOptions(
                                              mergedOptions(instances[i], o))]
                 /\ result' = Settled("Argon2Hash.hash", call,
                       IF e = NoError
                         THEN [status |-> "resolved", value |-> hash(text)]
                         ELSE Rejected(hashCatch(e)))
  /\ UNCHANGED instances
  /\ ProviderFrame

\* instance.compare(plaintext, hashedText), up to its settling
Compare ==
  /\ result = NoValue
  /\ \E i \in 1..Len(instances), text \in TextChoices,
        hashedText \in HashChoices, e \in LibraryOutcomes :
       LET call == [fn |-> "compare", instance |-> i, text |-> text,
                    hashedText |-> hashedText]
       IN IF Falsy(text) \/ Falsy(hashedText)
            THEN /\ e = NoError
                 /\ library' = NoValue
                 /\ result' = Settled("Argon2Hash.compare", call,
                       Rejected(
                         IF Falsy(text)
                           THEN InvalidParamError(<<"t", "exto">>,
                                                  <<"n", "ão pode ser vazio">>,
                                                  "Argon2Hash.compare")
                           ELSE InvalidParamError(<<"h", "ash">>,
                                                  <<"n", "ão pode ser vazio">>,
                                                  "Argon2Hash.compare")))
            ELSE /\ library' = [fn |-> "argon2.verify", text |-> text,
                                hashedText |-> hashedText]
                 /\ result' = Settled("Argon2Hash.compare", call,
                       IF e = NoError
                         THEN [status |-> "resolved", value |-> TRUE]
                         ELSE Rejected(compareCatch(e)))
  /\ UNCHANGED instances
  /\ ProviderFrame

InitHash ==
  /\ InitCommon
  /\ faultsLeft = 0
  /\ mode = "hash"
  /\ repository = "memory"
  /\ listService = "part_034"

NextHash == Construct \/ WithOptions \/ Hash \/ Compare

SpecHash == InitHash /\ [][NextHash]_vars

(* ---------------------------- UserListService ------------------------- *)

\* the first info entry of list, in each of the two classes
startMessage ==
  IF listService = "user-list.ts"
    THEN <<"Listing users...">>
    ELSE <<"Iniciando listagem de usuários">>

\* what userRepository.list may throw or reject with: an Error, a string,
\* null, a plain object without message, and an error that is already a
\* ServerError
ListRejections ==
  ThrownValues("list")
  \cup { PlainValue("object", "list"),
         ServerError(GenericError("PrismaUserRepository.list")) }

ListFaultChoices(budget) ==
  {NoFault} \cup
  (IF budget > 0
     THEN {[point |-> "list", value |-> v] : v \in ListRejections}
     ELSE {})

\* `Erro ao listar usuários: ${error instanceof Error ? error.message
\*                                                   : "Erro desconhecido"}`
listErrorEntry(p, e, threw) ==
  Entry(p, "error",
        <<"Erro ao listar usuários: ">>
          \o (IF InstanceOfError(e) THEN e.message ELSE <<"Erro desconhecido">>),
        NoValue, threw)

\* new Error(`Erro inesperado do servidor. ${(error as Error).message}`)
wrappedError(e) ==
  [type |-> "Error", name |-> <<"Error">>,
   message |-> <<"E", "rro inesperado do servidor. ">> \o templateString(e.message),
   statusCode |-> 0, origin |-> "UserListService.list"]

\* how list settles: e = NoError is the normal end of the try block, anything
\* else is caught by the catch block, which logs, reads the message of the
\* caught value (which throws for null and undefined) and throws a
\* ServerError; fe is what loggerProvider.error throws, if it does. The
\* class of user-list.ts has no try block: what is thrown leaves list as
\* it is and nothing is logged for it
ListSettle(p, e, fe, entries) ==
  /\ pc' = [pc EXCEPT ![p] = "done"]
  /\ fe # NoFault => e # NoError /\ listService = "part_034"
  /\ IF listService = "user-list.ts"
       THEN /\ log' = log \o entries
            /\ outcome' = [outcome EXCEPT
                             ![p] = IF e = NoError
                                      THEN [status |-> "resolved",
                                            value |-> listed[p]]
                                      ELSE Rejected(e)]
     ELSE IF e = NoError
       THEN /\ outcome' = [outcome EXCEPT
                             ![p] = [status |-> "resolved", value |-> listed[p]]]
            /\ log' = log \o entries
       ELSE /\ log' = log \o entries \o <<listErrorEntry(p, e, fe # NoFault)>>
            /\ outcome' = [outcome EXCEPT
                             ![p] = Rejected(
                               IF fe # NoFault THEN fe.value
                               ELSE IF Nullish(e)
                                 THEN TypeError("UserListService.list")
                               ELSE ServerError(wrappedError(e)))]

\* list is called, after the caller logged the entries `logged`: the first
\* info log, then userRepository.list, which maps the users when it is called
serviceList(p, logged) ==
  /\ pc[p] = "idle"
  /\ \A q \in Calls : q < p => pc[q] # "idle"
  /\ \A q \in Calls : pc[q] \in {"idle", "done"}
  /\ \E f \in FaultChoices({"info"}, faultsLeft) \cup ListFaultChoices(faultsLeft) :
     \E fe \in FaultChoices({"error"}, faultsLeft - Cost(f)) :
       LET eInfo   == FaultAt(f, "info")
           entries == logged \o
                      <<Entry(p, "info", startMessage, NoValue,
                              eInfo # NoError)>>
       IN /\ faultsLeft' = faultsLeft - Cost(f) - Cost(fe)
          /\ usersBefore' = [usersBefore EXCEPT ![p] = users]
          /\ IF eInfo # NoError
               THEN /\ ListSettle(p, eInfo, fe, entries)
                    /\ UNCHANGED <<invoked, pending, listed>>
               ELSE /\ fe = NoFault
                    /\ log' = log \o entries
                    /\ pc' = [pc EXCEPT ![p] = "listing"]
                    /\ invoked' = [invoked EXCEPT ![p] = <<"list">>]
                    /\ pending' = [pending EXCEPT ![p] = FaultAt(f, "list")]
                    /\ listed' = [listed EXCEPT
                                     ![p] = IF f.point = "list" THEN <<>>
                                            ELSE IF repository = "prisma"
                                              THEN prismaList(users)
                                            ELSE list(users)]
                    /\ UNCHANGED outcome
  /\ UNCHANGED <<users, nextId, data, sanitized, found, hashed, completed,
                 created, mode, validators, repository, listService, providerVars>>

\* list is called directly
List(p) ==
  /\ serviceList(p, <<>>)
  /\ UNCHANGED httpVars

\* userRepository.list has settled: the second info log, then list resolves
\* with the users
ListAfter(p) ==
  /\ pc[p] = "listing"
  /\ \E f \in FaultChoices({"info"}, faultsLeft) :
     \E fe \in FaultChoices({"error"}, faultsLeft - Cost(f)) :
       LET eInfo   == FaultAt(f, "info")
           entries == <<IF listService = "user-list.ts"
                          THEN Entry(p, "info",
                                     <<"Users listed successfully!">>,
                                     NoValue, eInfo # NoError)
                          ELSE Entry(p, "info",
                                     <<"Listagem de usuários concluída com sucesso. Total: ">>,
                                     [total |-> Len(listed[p])],
                                     eInfo # NoError)>>
       IN /\ faultsLeft' = faultsLeft - Cost(f) - Cost(fe)
          /\ completed' = [completed EXCEPT
                             ![p] = IF pending[p] = NoError THEN <<"list">> ELSE @]
          /\ IF pending[p] # NoError
               THEN /\ f = NoFault
                    /\ ListSettle(p, pending[p], fe, <<>>)
               ELSE ListSettle(p, eInfo, fe, entries)
  /\ UNCHANGED <<users, nextId, data, sanitized, found, pending, hashed,
                 invoked, created, usersBefore, mode, validators, repository, listService,
                 listed, httpVars, providerVars>>

\* the contents of a repository after zero, one and two users were created
StoredUsers ==
  LET record(d) == repositoryRecord(sanitize(d), hash(d.password))
      d1 == UserCreateData(Names[1], Emails[1], Phones[1], Birthdates[1], Passwords[1])
      d2 == UserCreateData(Names[2], Emails[3], Phones[2], Birthdates[1], Passwords[2])
  IN { <<>>,
       create(<<>>, record(d1), 1, 1),
       create(create(<<>>, record(d1), 1, 1), record(d2), 2, 2) }

\* list calls one after the other on a repository that holds some users;
\* the repository and the logger may fail
InitList ==
  /\ InitCalls
  /\ users \in StoredUsers
  /\ nextId = Len(users) + 1
  /\ faultsLeft = MaxFaults
  /\ mode = "list"
  /\ repository = "memory"
  /\ listService \in {"part_034", "user-list.ts"}

NextList == \E p \in Calls : List(p) \/ ListAfter(p)

SpecList == InitList /\ [][NextList]_vars

(* --------------------------- UserListController ----------------------- *)

\* ok(data)
ok(d) ==
  [statusCode |-> 200, success |-> TRUE, data |-> d,
   metadata |-> [timestamp |-> Today]]

\* handle is called: the controller logs, which may throw into its catch
\* block, then calls userListService.list, which runs up to its suspension
HandleList(p) ==
  /\ body' = [body EXCEPT ![p] = ListRequest]
  /\ \E f \in FaultChoices({"info"}, faultsLeft) :
       LET entry == Entry(p, "info", <<"Listing users...">>, NoValue,
                          f # NoFault)
       IN IF f # NoFault
            THEN /\ pc[p] = "idle"
                 /\ \A q \in Calls : q < p => pc[q] # "idle"
                 /\ \A q \in Calls : pc[q] \in {"idle", "done"}
                 /\ pc' = [pc EXCEPT ![p] = "done"]
                 /\ log' = log \o <<entry>>
                 /\ faultsLeft' = faultsLeft - 1
                 /\ response' = [response EXCEPT ![p] = handleError(f.value)]
                 /\ UNCHANGED <<users, nextId, data, sanitized, found, pending,
                                hashed, outcome, invoked, completed, created,
                                usersBefore, mode, validators, repository, listService,
                                listed, providerVars>>
            ELSE /\ serviceList(p, <<entry>>)
                 /\ UNCHANGED response

\* list has settled: the controller logs and returns ok(users), or returns
\* handleError(error) for what list or its own log call threw
RespondList(p) ==
  /\ pc[p] = "done"
  /\ body[p] = ListRequest
  /\ response[p] = NoValue
  /\ IF outcome[p].status = "rejected"
       THEN /\ response' = [response EXCEPT
                              ![p] = handleError(outcome[p].value)]
            /\ UNCHANGED <<log, faultsLeft>>
       ELSE \E f \in FaultChoices({"info"}, faultsLeft) :
              /\ log' = log \o <<Entry(p, "info",
                                       <<"Users listed successfully!">>,
                                       NoValue, f # NoFault)>>
              /\ faultsLeft' = faultsLeft - Cost(f)
              /\ response' = [response EXCEPT
                                ![p] = IF f # NoFault
                                         THEN handleError(f.value)
                                         ELSE ok(outcome[p].value)]
  /\ UNCHANGED <<users, nextId, pc, data, sanitized, found, pending, hashed,
                 outcome, invoked, completed, created, usersBefore, mode,
                 validators, repository, listService, listed, body, providerVars>>

\* both controllers in front of services whose collaborators may fail
InitControllers ==
  /\ InitCommon
  /\ faultsLeft = MaxFaults
  /\ mode = "http"
  /\ repository = "memory"
  /\ listService = "part_034"

NextControllers ==
  \E p \in Calls :
    \/ Handle(p)
    \/ ResumeValidate(p)
    \/ AfterValidate(p)
    \/ AfterHash(p)
    \/ AfterCreate(p)
    \/ Respond(p)
    \/ HandleList(p)
    \/ ListAfter(p)
    \/ RespondList(p)

SpecControllers == InitControllers /\ [][NextControllers]_vars

\* create and list requests one after the other on either repository,
\* which holds the users earlier requests created; no collaborator fails
InitCore ==
  /\ InitCalls
  /\ users \in StoredUsers
  /\ nextId = Len(users) + 1
  /\ faultsLeft = 0
  /\ mode = "http"
  /\ repository \in {"memory", "prisma"}
  /\ listService \in {"part_034", "user-list.ts"}

SpecCore == InitCore /\ [][NextControllers]_vars

(* ------------------------------ properties --------------------------- *)

Order == <<"sanitize", "validate", "hash", "create">>

IsPrefix(a, b) == Len(a) <= Len(b) /\ SubSeq(b, 1, Len(a)) = a

\* the collaborator was invoked by call p and threw or rejected
Failed(p, dep) ==
  /\ InSeq(dep, invoked[p])
  /\ ~InSeq(dep, completed[p])
  /\ pc[p] = "done" \/ pending[p] # NoError

Done(p) == pc[p] = "done"

\* call p has settled and no later call has started
LastDone(p) == Done(p) /\ \A q \in Calls : q > p => pc[q] = "idle"

\* C1: in a call where sanitize, validate or hash failed,
\* userRepository.create is never invoked, and hashProvider.hash is never
\* invoked when validate failed.
C1_NoPersistenceOnFailure ==
  \A p \in Calls :
    /\ (Failed(p, "sanitize") \/ Failed(p, "validate") \/ Failed(p, "hash"))
         => ~InSeq("create", invoked[p]) /\ created[p] = <<>>
    /\ Failed(p, "validate") => ~InSeq("hash", invoked[p])

C1_Witness ==
  \E p, q \in Calls :
    /\ Done(p) /\ Failed(p, "hash")
    /\ Done(q) /\ Failed(q, "validate")

\* C2: whenever create rejects, the users stored in the repository are
\* exactly those stored before the call.
C2_RejectLeavesRepository ==
  \A p \in Calls :
    LastDone(p) /\ outcome[p].status = "rejected" => users = usersBefore[p]

\* C3: the collaborators are invoked in the order sanitize, validate, hash,
\* create, each at most once, and each one only after the previous one has
\* returned normally.
C3_StrictOrder ==
  \A p \in Calls :
    /\ IsPrefix(invoked[p], Order)
    /\ IsPrefix(completed[p], invoked[p])
    /\ Len(invoked[p]) <= Len(completed[p]) + 1

C3_Witness ==
  \E p \in Calls : Done(p) /\ invoked[p] = Order /\ completed[p] = Order

\* C4: whatever validate, hash or userRepository.create throws or rejects
\* with, create rejects with that very value.
C4_RejectsWithSameValue ==
  \A p \in Calls :
    Done(p) /\ pending[p] # NoError => outcome[p] = Rejected(pending[p])

\* the string values a logger payload carries
PayloadStrings(payload) ==
  {payload.userEmail}
  \cup (IF payload.sanitizedData = NoValue THEN {}
        ELSE {payload.sanitizedData.name, payload.sanitizedData.email,
              payload.sanitizedData.phone, payload.sanitizedData.password})
  \cup (IF payload.error = NoValue THEN {}
        ELSE {payload.error.name, payload.error.message, payload.error.stack})

HasPassword(p) == data[p] # NullData /\ ~Falsy(data[p].password)

\* C5: the plaintext password never appears in a payload passed to the
\* logger (the trace entry carries "[REDACTED]" in its place), nor as the
\* password of the record passed to userRepository.create, which carries
\* the value hashProvider.hash returned.
C5_PasswordNeverLeaks ==
  \A p \in Calls :
    pc[p] # "idle" /\ HasPassword(p) =>
      /\ \A i \in 1..Len(log) :
           log[i].call = p =>
             /\ data[p].password \notin PayloadStrings(log[i].payload)
             /\ log[i].level = "trace" =>
                  log[i].payload.sanitizedData.password = REDACTED
      /\ \A i \in 1..Len(created[p]) :
           /\ created[p][i].password # data[p].password
           /\ created[p][i].password = hashed[p]

C5_Witness ==
  \E p \in Calls :
    /\ HasPassword(p)
    /\ created[p] # <<>>
    /\ \E i \in 1..Len(log) : log[i].call = p /\ log[i].level = "trace"
    /\ \E i \in 1..Len(log) : log[i].call = p /\ log[i].level = "error"

\* sanitize, tabulated over the inputs of create
SanitizedOf == [d \in Inputs |-> sanitize(d)]

\* C6: when create resolves, userRepository.create was invoked exactly once,
\* with the sanitizer's output in which password is replaced by the string
\* hashProvider.hash returned for the sanitized password.
C6_PersistsSanitizedWithHash ==
  \A p \in Calls :
    outcome[p].status = "resolved" =>
      /\ Count("create", invoked[p]) = 1
      /\ Len(created[p]) = 1
      /\ sanitized[p] = SanitizedOf[data[p]]
      /\ created[p][1] =
           [name      |-> sanitized[p].name,
            email     |-> sanitized[p].email,
            phone     |-> sanitized[p].phone,
            birthdate |-> sanitized[p].birthdate,
            password  |-> hash(sanitized[p].password)]
      /\ outcome[p].value = NoError

C6_Witness ==
  \E p \in Calls :
    /\ outcome[p].status = "resolved"
    /\ sanitized[p].name # data[p].name
    /\ sanitized[p].email # data[p].email

\* the input passes every check of the validator on an empty repository
Valid(d) ==
  /\ d # NullData
  /\ validateBeforeLookup(sanitize(d)) = NoError
  /\ validateAfterLookup(sanitize(d), NoUser) = NoError

\* Valid, tabulated over the inputs of create
ValidOf == [d \in Inputs |-> Valid(d)]

\* two calls one after the other, both with valid input and the same
\* sanitized e-mail, and no failure injected into the collaborators
SameEmailTwice ==
  /\ Done(1) /\ Done(2)
  /\ faultsLeft = MaxFaults
  /\ ValidOf[data[1]] /\ ValidOf[data[2]]
  /\ SanitizedOf[data[1]].email = SanitizedOf[data[2]].email

\* C7: of two calls made one after the other with the same sanitized
\* e-mail, the first resolves, the second rejects with
\* DuplicateResourceError "E-mail já cadastrado no sistema", and findByEmail
\* then returns the record of the first call, unchanged.
C7_SecondIsDuplicate ==
  SameEmailTwice =>
    /\ outcome[1] = Resolved
    /\ outcome[2].status = "rejected"
    /\ outcome[2].value.type = "DuplicateResourceError"
    /\ outcome[2].value.message = <<"E", "-mail", " já cadastrado no sistema">>
    /\ outcome[2].value.statusCode = 409
    /\ Len(usersBefore[2]) = 1
    /\ findByEmail(users, SanitizedOf[data[2]].email) = usersBefore[2][1]
    /\ usersBefore[2][1].name = SanitizedOf[data[1]].name
    /\ usersBefore[2][1].phone = SanitizedOf[data[1]].phone
    /\ usersBefore[2][1].password = hash(data[1].password)

C7_Witness ==
  /\ SameEmailTwice
  /\ data[1].email # data[2].email
  /\ data[1].name # data[2].name

\* C8: after any sequence of calls that do not overlap, no two stored users
\* have e-mails that are equal when compared case-insensitively.
C8_EmailsUniqueIgnoringCase ==
  \A i, j \in 1..Len(users) :
    i # j => toLowerCase(users[i].email) # toLowerCase(users[j].email)

C8_Witness ==
  /\ Len(users) >= 1
  /\ \E p, q \in Calls :
       /\ p < q /\ Done(p) /\ Done(q)
       /\ data[p] # NullData /\ data[q] # NullData
       /\ data[p].email # data[q].email
       /\ toLowerCase(trim(data[p].email)) = toLowerCase(trim(data[q].email))
       /\ outcome[p] = Resolved
       /\ outcome[q].status = "rejected"
       /\ outcome[q].value.type = "DuplicateResourceError"

\* both calls passed the uniqueness check before either persisted: each
\* lookup found nothing although the two sanitized e-mails are the same
BothPassedUniqueness(p, q) ==
  /\ p # q
  /\ InSeq("validate", completed[p]) /\ InSeq("validate", completed[q])
  /\ found[p] = NoUser /\ found[q] = NoUser
  /\ sanitized[p].email = sanitized[q].email

\* C9: two concurrent calls with the same sanitized e-mail can both pass
\* the uniqueness check before either persists; both calls then resolve
\* and the repository ends up with two users with that e-mail.
C9_RaceStoresTwice ==
  \A p, q \in Calls :
    Done(p) /\ Done(q) /\ BothPassedUniqueness(p, q) =>
      /\ outcome[p] = Resolved /\ outcome[q] = Resolved
      /\ \E i, j \in 1..Len(users) :
           /\ i # j
           /\ users[i].email = sanitized[p].email
           /\ users[j].email = sanitized[p].email

C9_Witness ==
  \E p, q \in Calls :
    /\ Done(p) /\ Done(q) /\ BothPassedUniqueness(p, q)
    /\ usersBefore[p] = <<>> /\ usersBefore[q] = <<>>
    /\ Len(users) = 2

\* how create settles when it runs alone on the empty repository
AloneOutcome(d) ==
  LET san == sanitize(d)
      e   == FirstError(<<validateBeforeLookup(san),
                          validateAfterLookup(san, findByEmail(<<>>, san.email))>>)
  IN IF e = NoError THEN Resolved ELSE Rejected(e)

StoredRecord(u) ==
  [name |-> u.name, email |-> u.email, phone |-> u.phone,
   birthdate |-> u.birthdate, password |-> u.password]

\* AloneOutcome, tabulated over the inputs of create
AloneOutcomeOf == [d \in Inputs |-> AloneOutcome(d)]

DistinctEmails ==
  \A p, q \in Calls : p # q => SanitizedOf[data[p]].email # SanitizedOf[data[q]].email

\* C10: concurrent calls whose sanitized e-mails differ settle, under every
\* interleaving, as each would alone on the initial repository, and the
\* final repository holds the records of exactly the calls that resolved.
C10_DistinctEmailsIndependent ==
  (\A p \in Calls : Done(p)) /\ DistinctEmails =>
    /\ \A p \in Calls : outcome[p] = AloneOutcomeOf[data[p]]
    /\ Len(users) = Cardinality({p \in Calls : outcome[p] = Resolved})
    /\ {StoredRecord(users[i]) : i \in 1..Len(users)}
         = {[SanitizedOf[data[p]] EXCEPT !.password = hash(data[p].password)] :
              p \in {q \in Calls : outcome[q] = Resolved}}

C10_Witness ==
  /\ \A p \in Calls : Done(p)
  /\ DistinctEmails
  /\ \E p, q \in Calls :
       /\ p < q
       /\ outcome[p] = Resolved /\ outcome[q] = Resolved
       /\ usersBefore[q] = <<>>
       /\ users[1].email = sanitized[q].email

\* part occurs in the string whole
Embeds(whole, part) ==
  \E i \in 1..(Len(whole) + 1) :
    /\ i + Len(part) - 1 <= Len(whole)
    /\ SubSeq(whole, i, i + Len(part) - 1) = part

\* the entries call p logged at the given level
EntriesOf(p, level) ==
  SelectSeq(log, LAMBDA entry : entry.call = p /\ entry.level = level)

\* no call of p to the logger threw
LoggerWorked(p) == \A i \in 1..Len(log) : log[i].call = p => ~log[i].threw

\* call p is a list call in which userRepository.list threw or rejected
ListFailed(p) ==
  /\ Done(p)
  /\ invoked[p] = <<"list">>
  /\ pending[p] # NoError
  /\ LoggerWorked(p)

\* C19: whenever userRepository.list throws or rejects, list logs one error
\* entry and rejects with a ServerError of status 500 whose message embeds
\* the message of the thrown Error, or "Erro desconhecido" when the thrown
\* value is not an Error; it rejects with no other kind of value.
C19_ListRejectsWithServerError ==
  \A p \in Calls :
    ListFailed(p) =>
      /\ Len(EntriesOf(p, "error")) = 1
      /\ outcome[p].status = "rejected"
      /\ outcome[p].value.type = "ServerError"
      /\ outcome[p].value.statusCode = 500
      /\ Embeds(outcome[p].value.message,
                IF InstanceOfError(pending[p])
                  THEN pending[p].message
                  ELSE <<"Erro desconhecido">>)

\* C20: an error that is already a typed application error passes through
\* unchanged: when userRepository.list rejects with a ServerError, list
\* rejects with that same ServerError, whose message carries the prefix
\* "Erro inesperado do servidor." once.
C20_TypedErrorsPassUnchanged ==
  \A p \in Calls :
    ListFailed(p) /\ pending[p].type = "ServerError" =>
      /\ outcome[p] = Rejected(pending[p])
      /\ outcome[p].value.message = <<"E", "rro inesperado do servidor. ", "F", "alha">>

\* the fields of UserCreateData in the order of the presence check, each with
\* the name the error message gives it
FieldOrder == <<"name", "email", "phone", "birthdate", "password">>

FieldLabel ==
  [name |-> <<"n", "ome">>, email |-> <<"e", "mail">>,
   phone |-> <<"t", "elefone">>, birthdate |-> <<"d", "ata de nascimento">>,
   password |-> <<"s", "enha">>]

MissingFields(d) == {i \in 1..Len(FieldOrder) : Falsy(d[FieldOrder[i]])}

FirstMissingField(d) ==
  FieldOrder[CHOOSE i \in MissingFields(d) : \A j \in MissingFields(d) : i <= j]

\* validate has settled in call p and create has not yet gone on
ValidateSettled(p) == pc[p] = "validated"

\* C11: when one or more of name, email, phone, birthdate, password is
\* missing or empty in the data given to validate, validate rejects with the
\* MissingParamError that names the first such field in that order, and
\* invokes none of the five specific validators (the repository is not
\* queried).
C11_FirstMissingFieldReported ==
  \A p \in Calls :
    ValidateSettled(p) /\ MissingFields(sanitized[p]) # {} =>
      /\ pending[p].type = "MissingParamError"
      /\ pending[p].statusCode = 400
      /\ pending[p].message =
           <<"Parâmetro obrigatório não informado: ">>
             \o FieldLabel[FirstMissingField(sanitized[p])]
      /\ validators[p] = <<>>
      /\ found[p] = NoUser

C11_Witness ==
  \E p, q \in Calls :
    /\ ValidateSettled(p)
    /\ MissingFields(sanitized[p]) = {2, 5}
    /\ pending[p].message = <<"Parâmetro obrigatório não informado: ", "e", "mail">>
    /\ Done(q)
    /\ MissingFields(sanitized[q]) = {4, 5}
    /\ outcome[q].value.type = "MissingParamError"

\* the verdict of the k-th specific validator on the data of call p
Verdict(p, k) ==
  CASE k = 1 -> userEmailValidator(sanitized[p].email)
    [] k = 2 -> userUniqueEmailValidator(findByEmail(usersBefore[p],
                                                     sanitized[p].email))
    [] k = 3 -> userPhoneValidator(sanitized[p].phone)
    [] k = 4 -> userBirthdateValidator(sanitized[p].birthdate)
    [] k = 5 -> userPasswordValidator(sanitized[p].password)

\* C12: with all five fields present, validate invokes the specific
\* validators in the order email format, email uniqueness, phone, birthdate,
\* password, each at most once; when the k-th fails validate rejects with
\* that validator's error, the earlier ones were invoked and passed and no
\* later one is invoked; validate resolves only if all five passed.
C12_ValidatorsInOrderFailFast ==
  \A p \in Calls :
    ValidateSettled(p) /\ MissingFields(sanitized[p]) = {} =>
      LET k == Len(validators[p])
      IN /\ k >= 1
         /\ IsPrefix(validators[p], <<"email", "uniqueEmail", "phone",
                                      "birthdate", "password">>)
         /\ \A j \in 1..(k - 1) : Verdict(p, j) = NoError
         /\ pending[p] # NoError => pending[p] = Verdict(p, k)
         /\ pending[p] = NoError => k = 5 /\ Verdict(p, 5) = NoError

C12_Witness ==
  \E p, q \in Calls :
    /\ Done(q) /\ outcome[q] = Resolved
    /\ Len(validators[q]) = 5
    /\ ValidateSettled(p)
    /\ validators[p] = <<"email", "uniqueEmail">>
    /\ pending[p].type = "DuplicateResourceError"
    /\ Verdict(p, 3) # NoError

\* C16: sanitize is idempotent: sanitizing the sanitized data again yields
\* the same name, email, phone, password and birthdate.
C16_SanitizeIdempotent ==
  \A p \in Calls :
    InSeq("sanitize", completed[p]) /\ data[p] # NullData =>
      /\ sanitize(sanitized[p]).name = sanitized[p].name
      /\ sanitize(sanitized[p]).email = sanitized[p].email
      /\ sanitize(sanitized[p]).phone = sanitized[p].phone
      /\ sanitize(sanitized[p]).password = sanitized[p].password
      /\ sanitize(sanitized[p]).birthdate = sanitized[p].birthdate

\* C17: the sanitized phone consists of decimal digits only, optionally
\* after one "+" at position 0, and keeps every digit of the input in order.
C17_PhoneDigitsAfterOptionalPlus ==
  \A p \in Calls :
    InSeq("sanitize", completed[p]) /\ data[p] # NullData
      /\ ~Falsy(data[p].phone) =>
        LET phone == sanitized[p].phone
        IN /\ \A i \in 1..Len(phone) :
                IsDigit(phone[i]) \/ (i = 1 /\ phone[i] = "+")
           /\ SelectSeq(phone, IsDigit) = SelectSeq(data[p].phone, IsDigit)

\* C18: sanitize(null) returns an empty object without throwing, and
\* create(null) rejects with the MissingParamError of the validator, after
\* exactly one error log, without invoking hashProvider.hash or
\* userRepository.create.
C18_NullDataRejectedAsMissing ==
  \A p \in Calls :
    pc[p] # "idle" /\ data[p] = NullData =>
      /\ InSeq("sanitize", completed[p])
      /\ sanitized[p] = EmptyObject
      /\ pc[p] \in {"validated", "done"}
      /\ invoked[p] = <<"sanitize", "validate">>
      /\ created[p] = <<>>
      /\ Done(p) =>
           /\ outcome[p].status = "rejected"
           /\ outcome[p].value.type = "MissingParamError"
           /\ outcome[p].value.origin = "UserCreateDataValidator"
           /\ Len(EntriesOf(p, "error")) = 1
      /\ LastDone(p) => users = usersBefore[p]

C18_Witness ==
  \E p, q \in Calls :
    /\ Done(q) /\ outcome[q] = Resolved
    /\ q < p /\ Done(p) /\ data[p] = NullData
    /\ outcome[p].status = "rejected"
    /\ Len(users) = 1

TypedErrors ==
  {"MissingParamError", "InvalidParamError", "DuplicateResourceError",
   "ServerError"}

\* C13: every rejection of validate is a typed application error: when an
\* underlying check, the repository lookup included, throws another value,
\* validate rejects with a ServerError built from it, not with the value.
C13_RejectionsAreTyped ==
  \A p \in Calls :
    ValidateSettled(p) /\ validators[p] # <<>> /\ pending[p] # NoError =>
      pending[p].type \in TypedErrors

\* the controller answered a request that had a body
Answered(p) == response[p] # NoValue /\ body[p] \notin {NoRequest, NoBody}

\* C14: a request whose body lacks one of name, email, phone, birthdate,
\* password is answered with the missing-parameter error that names the
\* field; an invalid-parameter error is the answer only when every field
\* was present.
C14_AbsentFieldIsMissingParam ==
  \A p \in Calls :
    Answered(p) =>
      /\ MissingFields(body[p]) # {} =>
           /\ response[p].statusCode = 400
           /\ response[p].errorMessage =
                <<"Parâmetro obrigatório não informado: ">>
                  \o FieldLabel[FirstMissingField(body[p])]
      /\ (/\ response[p].errorMessage # NoValue
          /\ Head(response[p].errorMessage) = "Parâmetro inválido: ")
           => MissingFields(body[p]) = {}

\* C15: whatever the request body carries, the stored user has the default
\* role, the default avatar and an id assigned by the system.
C15_SystemFieldsNotFromCaller ==
  \A i \in 1..Len(users) :
    /\ users[i].role = USER_DEFAULT_ROLE
    /\ users[i].avatarUrl = USER_DEFAULT_AVATAR_URL
    /\ users[i].id = i

\* the value the service rejected with, or the controller's logger threw,
\* in a request that the controller answered through handleError
Failure(p) ==
  IF outcome[p].status = "rejected" THEN outcome[p].value
  ELSE IF \E i \in 1..Len(log) : log[i].call = p /\ log[i].threw
    THEN GenericError("info")
  ELSE NoError

\* C21: whatever the service throws, handle of both controllers resolves to
\* a response with success false, a timestamp and a string errorMessage,
\* whose status is the error's status for an ApplicationError and 500
\* otherwise; the body carries no stack.
C21_FailureEnvelope ==
  \A p \in Calls :
    response[p] # NoValue /\ Failure(p) # NoError =>
      /\ "statusCode" \in DOMAIN response[p]
      /\ response[p].success = FALSE
      /\ "timestamp" \in DOMAIN response[p].metadata
      /\ response[p].errorMessage # Undefined
      /\ response[p].statusCode =
           (IF InstanceOfApplicationError(Failure(p))
              THEN Failure(p).statusCode ELSE 500)
      /\ "stack" \notin DOMAIN response[p]

NoPassword(us) == \A i \in 1..Len(us) : "password" \notin DOMAIN us[i]

\* the list request of call p was answered with the users
ListAnswered(p) ==
  /\ body[p] = ListRequest
  /\ response[p] # NoValue
  /\ response[p].success

\* C22: in every state of the repository reached by create calls, no
\* element returned by InMemoryUserRepository.list, PrismaUserRepository.list
\* or UserListService.list, nor of the data of the list controller's
\* response, has a password property.
C22_ListedWithoutPassword ==
  /\ NoPassword(list(users))
  /\ NoPassword(prismaList(users))
  /\ \A p \in Calls :
       /\ NoPassword(listed[p])
       /\ body[p] = ListRequest /\ outcome[p].status = "resolved"
            => NoPassword(outcome[p].value)
       /\ ListAnswered(p) => NoPassword(response[p].data)

\* a list request was answered with a stored user, whose record in the
\* repository holds the hashed password
C22_Witness ==
  \E p \in Calls :
    /\ ListAnswered(p)
    /\ Len(response[p].data) >= 1
    /\ \E i \in 1..Len(users) :
         /\ users[i].id = response[p].data[1].id
         /\ "password" \in DOMAIN users[i]
         /\ ~Falsy(users[i].password)

\* C23: a call of create that rejects has emitted exactly one error entry
\* "Erro ao criar usuário", which carries the name and message of the error
\* create rejects with; a call that resolves has emitted none; the info
\* entry "Usuário criado com sucesso" is emitted only after
\* userRepository.create has resolved.
C23_OneErrorEntryPerRejection ==
  \A p \in Calls :
    LET errors == EntriesOf(p, "error")
        infos  == EntriesOf(p, "info")
    IN /\ Done(p) /\ outcome[p].status = "rejected" =>
            /\ Len(errors) = 1
            /\ errors[1].message = "Erro ao criar usuário"
            /\ ~errors[1].threw =>
                 /\ errors[1].payload.error.name = outcome[p].value.name
                 /\ errors[1].payload.error.message = outcome[p].value.message
       /\ Done(p) /\ outcome[p].status = "resolved" => errors = <<>>
       /\ ~Done(p) => errors = <<>>
       /\ infos # <<>> => InSeq("create", completed[p])

\* the birthday of the n-th year of life
Birthday(b, n) == <<b[1] + n, b[2], b[3]>>

\* the age in whole years at the current date: the number of birthdays
\* that are not after Today
AgeToday(b) ==
  CHOOSE n \in 0..150 :
    /\ ~DateBefore(Today, Birthday(b, n))
    /\ DateBefore(Today, Birthday(b, n + 1))

\* the reason of the first failing check of a birthdate, <<>> if none fails
BirthdateReason(b) ==
  IF b = <<>> \/ ~isValid(b) THEN <<"d", "ata inválida">>
  ELSE IF ~DateBefore(b, Today) THEN <<"n", "ão pode ser no futuro">>
  ELSE IF AgeToday(b) < 18 THEN <<"u", "suário deve ter pelo menos 18 anos">>
  ELSE IF AgeToday(b) > 70 THEN <<"i", "dade excede o limite máximo de 70 anos">>
  ELSE <<>>

BirthdateSettled ==
  /\ result # NoValue
  /\ result.op = "DateFnsBirthdateValidatorAdapter.validate"

Has(w, P(_)) == \E i \in 1..Len(w) : P(w[i])

\* the reason of the first rule a password violates, in the priority order
\* of the rules; <<>> if it violates none
PasswordReason(w) ==
  IF Len(w) < 8 THEN <<"d", "eve ter pelo menos 8 caracteres">>
  ELSE IF ~Has(w, IsUpper)
    THEN <<"d", "eve conter pelo menos uma letra maiúscula">>
  ELSE IF ~Has(w, IsLower)
    THEN <<"d", "eve conter pelo menos uma letra minúscula">>
  ELSE IF ~Has(w, IsDigit) THEN <<"d", "eve conter pelo menos um número">>
  ELSE IF ~Has(w, IsSymbol)
    THEN <<"d", "eve conter pelo menos um caractere especial">>
  ELSE IF Has(w, IsSpace) THEN <<"n", "ão deve conter espaços">>
  ELSE IF w \in PasswordDenylist THEN <<"é", " muito comum ou previsível">>
  ELSE <<>>

PasswordSettled ==
  /\ result # NoValue
  /\ result.op = "PasswordValidatorAdapter.validate"

\* C25: the password adapter accepts a password iff it violates no rule;
\* otherwise it throws InvalidParamError("senha") with the reason of the
\* first violated rule only, in the order: 8 characters, uppercase,
\* lowercase, digit, symbol, no whitespace, not in the denylist.
C25_FirstViolatedRuleReported ==
  PasswordSettled =>
    LET w == result.arg
    IN /\ result.value = NoError <=> PasswordReason(w) = <<>>
       /\ result.value # NoError =>
            result.value = InvalidParamError(L_senha, PasswordReason(w),
                                             "PasswordValidatorAdapter")

\* a password that is long enough and violates two rules (no digit and a
\* space) was rejected for the first of them
C25_Witness ==
  /\ PasswordSettled
  /\ Len(result.arg) >= 8
  /\ ~Has(result.arg, IsDigit)
  /\ Has(result.arg, IsSpace)
  /\ Has(result.arg, IsUpper) /\ Has(result.arg, IsLower)
  /\ result.value # NoError
  /\ result.value.message =
       <<"Parâmetro inválido: ", "S", "enha", ". ", "D",
         "eve conter pelo menos um número", ".">>

\* a hash call reached the argon2 library
HashReachedLibrary ==
  /\ result # NoValue
  /\ result.op = "Argon2Hash.hash"
  /\ library # NoValue

\* the name under which argon2 receives an option
ArgonName(k) == IF k = "iterations" THEN "timeCost" ELSE k

\* the options objects of a chain that set option k
Setting(chain, k) == SelectSeq(chain, LAMBDA o : k \in DOMAIN o)

\* C26: for each of iterations, memoryCost, parallelism and hashLength,
\* hash passes to argon2 the option of the call if the call gives it,
\* otherwise the option of the instance (the last of the constructor and
\* withOptions objects that sets it), otherwise the default 3, 65536, 4, 32.
C26_OptionPrecedence ==
  HashReachedLibrary =>
    LET given == result.arg.given
        chain == instances[result.arg.instance].chain
    IN \A k \in OptionNames :
         library.options[ArgonName(k)] =
           (IF k \in DOMAIN given THEN given[k]
            ELSE IF Setting(chain, k) # <<>>
              THEN Setting(chain, k)[Len(Setting(chain, k))][k]
            ELSE [iterations |-> 3, memoryCost |-> 65536,
                  parallelism |-> 4, hashLength |-> 32][k])

\* a hash call in which one option came from the call, one from the second
\* options object of the instance and one from the defaults
C26_Witness ==
  /\ HashReachedLibrary
  /\ LET given == result.arg.given
         chain == instances[result.arg.instance].chain
     IN /\ Len(chain) = 2
        /\ "iterations" \in DOMAIN given
        /\ "iterations" \in DOMAIN chain[1]
        /\ "iterations" \in DOMAIN chain[2]
        /\ chain[2].iterations # given.iterations
        /\ "hashLength" \in DOMAIN chain[2]
        /\ "hashLength" \notin DOMAIN given
        /\ library.options.timeCost = given.iterations
        /\ library.options.hashLength = chain[2].hashLength
        /\ library.options.parallelism = 4

RECURSIVE Accumulated(_)
\* the options an instance built from a chain of options objects holds
Accumulated(chain) ==
  IF chain = <<>> THEN [k \in {} |-> 0]
  ELSE chain[Len(chain)] @@ Accumulated(SubSeq(chain, 1, Len(chain) - 1))

\* C27: withOptions leaves the receiver as it was: every instance holds the
\* options it was built with, whatever instances were derived from it, and
\* a hash call on it uses those options.
C27_WithOptionsLeavesReceiver ==
  /\ \A i \in 1..Len(instances) :
       instances[i].options = Accumulated(instances[i].chain)
  /\ HashReachedLibrary =>
       \A k \in OptionNames \ DOMAIN result.arg.given :
         library.options[ArgonName(k)] =
           (Accumulated(instances[result.arg.instance].chain)
              @@ defaultOptions)[k]

\* hash was called on an instance from which two instances with other
\* options had been derived
C27_Witness ==
  /\ HashReachedLibrary
  /\ result.arg.instance = 1
  /\ Len(instances) = 3
  /\ \A i \in {2, 3} :
       /\ Len(instances[i].chain) = 2
       /\ instances[i].chain[1] = instances[1].chain[1]
       /\ instances[i].options # instances[1].options

\* a call of hash or compare has settled
ProviderSettled ==
  /\ result # NoValue
  /\ result.op \in {"Argon2Hash.hash", "Argon2Hash.compare"}

\* the call was rejected for an empty argument
EmptyArgument ==
  \/ Falsy(result.arg.text)
  \/ result.arg.fn = "compare" /\ Falsy(result.arg.hashedText)

ListSucceeded(p) ==
  /\ Done(p)
  /\ invoked[p] = <<"list">>
  /\ pending[p] = NoError
  /\ LoggerWorked(p)

\* C30: when userRepository.list resolves, list resolves with the array the
\* repository returned and has emitted exactly two info entries and no
\* error entry: the start entry, then a completion entry that states the
\* number of users returned.
C30_ListLogsStartAndCount ==
  \A p \in Calls :
    ListSucceeded(p) =>
      LET infos == EntriesOf(p, "info")
      IN /\ outcome[p] = [status |-> "resolved", value |-> listed[p]]
         /\ EntriesOf(p, "error") = <<>>
         /\ Len(infos) = 2
         /\ infos[2].payload = [total |-> Len(listed[p])]

\* some call hands a record to userRepository.create in this step
CreateInvoked ==
  \E p \in Calls : Len(created'[p]) > Len(created[p])

\* the users a list call got are the users stored, in the order in which
\* they were created
InCreationOrder(p) ==
  /\ Len(listed[p]) <= Len(users)
  /\ \A i \in 1..Len(listed[p]) :
       /\ listed[p][i].id = users[i].id
       /\ listed[p][i].email = users[i].email

\* C29: the repository is append-only: every user stored earlier stays
\* stored with the same field values, findByEmail and list change nothing,
\* list returns the users in creation order, and the ids of the stored
\* users are pairwise distinct.
C29_AppendOnly ==
  /\ [](/\ \A i, j \in 1..Len(users) : i # j => users[i].id # users[j].id
        /\ \A i, j \in 1..Len(users) :
             i < j => users[i].createdAt < users[j].createdAt
        /\ \A p \in Calls : InCreationOrder(p))
  /\ [][/\ IsPrefix(users, users')
        /\ Len(users') <= Len(users) + 1
        /\ ~CreateInvoked => users' = users]_vars

\* a list request was answered with the one user stored and a second user
\* was created afterwards
C29_Witness ==
  /\ Len(users) = 2
  /\ \E p, q \in Calls :
       /\ ListAnswered(p)
       /\ Len(response[p].data) = 1
       /\ response[p].data[1].id = users[1].id
       /\ Len(created[q]) = 1

====
